---- MODULE Spec2Model ----
(***************************************************************************)
(* Note-Library, live quizzes: the CreateLiveQuiz admin form               *)
(* (src/unnamed/part_000) and the LiveTest listing page                    *)
(* (src/src/components/live/LiveTest.tsx).                                 *)
(*                                                                         *)
(* Representation of JavaScript values                                     *)
(*   null / undefined   the empty tuple Null                               *)
(*   a message string   the tuple of the parts it is concatenated from     *)
(*   a number           [nan, val]: NaN, or the integer val                *)
(*   an input's text    the tuple of its characters                        *)
(*   a file's text      the tuple of its JSON lexemes                      *)
(*   a JSON value       [t, s, items]: t the type tag, s the scalar text,  *)
(*                      items the elements (array) or members (object)     *)
(***************************************************************************)
EXTENDS Integers, Sequences, FiniteSets, Bags, TLC

VARIABLES
  \* ---- CreateLiveQuiz (src/unnamed/part_000) ----
  authLoading,     \* useAuth().loading
  currentUser,     \* useAuth().currentUser, Null when signed out
  quizDetails,     \* useState<QuizDetails>
  quizQuestions,   \* useState<QuizQuestion[]>
  fileError,       \* useState<string | null>
  formError,       \* useState<string | null>
  successMessage,  \* useState<string | null>
  isSubmitting,    \* useState(false)
  selected,        \* the file input's files[0]: a file name, NoFile when none
  readers,         \* bag of files whose FileReader has not fired onload yet
  pending,         \* bag of saveLiveQuizToFirestore calls not yet settled
  op,              \* history: the handler that ran last
  touched,         \* history: the draft was changed since handleSubmit last ran
  \* ---- LiveTest (src/src/components/live/LiveTest.tsx) ----
  remote,          \* what the listing read answers with (the external store)
  quizzes,         \* useState<LiveQuizData[]>
  loading,         \* useState(true)
  error,           \* useState<string | null>
  fetch,           \* position of fetchQuizzes: "idle", "waiting", "done", "failed"
  fetches,         \* number of getAllUnarchivedLiveQuizzesFromFirestore calls
  route            \* the path handed to navigate, Null before

formVars == <<authLoading, currentUser, quizDetails, quizQuestions, fileError,
              formError, successMessage, isSubmitting, selected, readers, pending>>
listVars == <<remote, quizzes, loading, error, fetch, fetches, route>>
vars == <<formVars, op, touched, listVars>>

Null == << >>

\* ------------------------------------------------------------------------
\* Bounds of the model
\* ------------------------------------------------------------------------
MaxReaders == 2
MaxFormReaders == 1
MaxInFlight == 2
MaxNow == 1
MaxQuizzes == 3

\* ------------------------------------------------------------------------
\* JavaScript numbers and parseInt
\* ------------------------------------------------------------------------
NaN == [nan |-> TRUE, val |-> 0]
Num(n) == [nan |-> FALSE, val |-> n]

\* x <= 0 on numbers: every comparison with NaN is false
LeqZero(x) == ~x.nan /\ x.val <= 0

DigitVal == [c \in {"0", "1", "2", "5"} |-> CASE c = "0" -> 0 [] c = "1" -> 1
                                               [] c = "2" -> 2 [] c = "5" -> 5]
IsDigit(c) == c \in DOMAIN DigitVal

RECURSIVE SkipSpace(_, _)
SkipSpace(s, i) ==
  IF i <= Len(s) /\ s[i] = " " THEN SkipSpace(s, i + 1) ELSE i

\* the value of the longest run of digits of s from i on, acc so far
RECURSIVE Digits(_, _, _)
Digits(s, i, acc) ==
  IF i <= Len(s) /\ IsDigit(s[i])
    THEN Digits(s, i + 1, acc * 10 + DigitVal[s[i]])
    ELSE acc

\* parseInt(value): leading blanks, an optional sign, then the longest prefix
\* of decimal digits; NaN when there is no digit there
parseInt(s) ==
  LET i == SkipSpace(s, 1)
      neg == i <= Len(s) /\ s[i] = "-"
      j == IF i <= Len(s) /\ s[i] \in {"-", "+"} THEN i + 1 ELSE i
  IN IF j <= Len(s) /\ IsDigit(s[j])
       THEN Num((IF neg THEN -1 ELSE 1) * Digits(s, j, 0))
       ELSE NaN

\* ------------------------------------------------------------------------
\* JSON text and JSON.parse
\* ------------------------------------------------------------------------
P(s) == [k |-> "punct", s |-> s]
StrT(s) == [k |-> "str", s |-> s]
NumT(s) == [k |-> "num", s |-> s]
LitT(s) == [k |-> "lit", s |-> s]

JNull == [t |-> "null", s |-> "null", items |-> << >>]
JBool(s) == [t |-> "bool", s |-> s, items |-> << >>]
JNum(s) == [t |-> "num", s |-> s, items |-> << >>]
JStr(s) == [t |-> "str", s |-> s, items |-> << >>]
JArr(items) == [t |-> "arr", s |-> "", items |-> items]
JObj(members) == [t |-> "obj", s |-> "", items |-> members]

Fail == [ok |-> FALSE, val |-> JNull, next |-> 0]
Done(v, n) == [ok |-> TRUE, val |-> v, next |-> n]

IsTok(toks, i, tok) == i <= Len(toks) /\ toks[i] = tok

\* recursive descent over the lexemes: value, elements of an array after its
\* first, members of an object after its first
RECURSIVE ParseValue(_, _), ParseElems(_, _, _), ParseMembers(_, _, _)
ParseValue(toks, i) ==
  IF i > Len(toks) THEN Fail
  ELSE LET tok == toks[i] IN
    CASE tok.k = "str" -> Done(JStr(tok.s), i + 1)
      [] tok.k = "num" -> Done(JNum(tok.s), i + 1)
      [] tok.k = "lit" ->
           IF tok.s = "null" THEN Done(JNull, i + 1)
           ELSE IF tok.s \in {"true", "false"} THEN Done(JBool(tok.s), i + 1)
           ELSE Fail
      [] tok = P("[") ->
           IF IsTok(toks, i + 1, P("]")) THEN Done(JArr(<< >>), i + 2)
           ELSE LET first == ParseValue(toks, i + 1) IN
                IF first.ok THEN ParseElems(toks, first.next, <<first.val>>)
                ELSE Fail
      [] tok = P("{") ->
           IF IsTok(toks, i + 1, P("}")) THEN Done(JObj(<< >>), i + 2)
           ELSE ParseMembers(toks, i + 1, << >>)
      [] OTHER -> Fail

ParseElems(toks, i, acc) ==
  IF IsTok(toks, i, P("]")) THEN Done(JArr(acc), i + 1)
  ELSE IF IsTok(toks, i, P(","))
    THEN LET v == ParseValue(toks, i + 1) IN
         IF v.ok THEN ParseElems(toks, v.next, Append(acc, v.val)) ELSE Fail
    ELSE Fail

\* at i: "key" : value, then either , and another member or }
ParseMembers(toks, i, acc) ==
  IF i <= Len(toks) /\ toks[i].k = "str" /\ IsTok(toks, i + 1, P(":"))
    THEN LET v == ParseValue(toks, i + 2) IN
         IF ~v.ok THEN Fail
         ELSE LET acc2 == Append(acc, [key |-> toks[i].s, val |-> v.val]) IN
              IF IsTok(toks, v.next, P("}")) THEN Done(JObj(acc2), v.next + 1)
              ELSE IF IsTok(toks, v.next, P(","))
                THEN ParseMembers(toks, v.next + 1, acc2)
                ELSE Fail
    ELSE Fail

\* JSON.parse(text): the value, or threw (SyntaxError) unless the whole text
\* is one value
JSONparse(toks) ==
  LET r == ParseValue(toks, 1) IN
  IF r.ok /\ r.next = Len(toks) + 1
    THEN [threw |-> FALSE, val |-> r.val]
    ELSE [threw |-> TRUE, val |-> JNull]

\* ------------------------------------------------------------------------
\* The files a user can select
\* ------------------------------------------------------------------------
Qtoks(id, question) ==
  <<P("{"), StrT("id"), P(":"), StrT(id), P(","),
    StrT("question"), P(":"), StrT(question), P("}")>>

FileText ==
     "one.json"      :> <<P("[")>> \o Qtoks("q1", "2+2?") \o <<P("]")>>
  @@ "two.json"      :> <<P("[")>> \o Qtoks("q1", "2+2?") \o <<P(",")>>
                          \o Qtoks("q2", "3+3?") \o <<P("]")>>
  @@ "none.json"     :> <<P("["), P("]")>>
  @@ "object.json"   :> <<P("{"), StrT("id"), P(":"), StrT("q1"), P("}")>>
  @@ "string.json"   :> <<StrT("abc")>>
  @@ "noid.json"     :> <<P("["), P("{"), StrT("question"), P(":"), StrT("x"),
                          P("}"), P("]")>>
  @@ "noquestion.json" :> <<P("[")>> \o Qtoks("q1", "2+2?") \o
                          <<P(","), P("{"), StrT("id"), P(":"), StrT("q2"),
                            P("}"), P("]")>>
  @@ "nested.json"   :> <<P("["), P("["), P("]"), P("]")>>
  @@ "number.json"   :> <<P("["), NumT("1"), P("]")>>
  @@ "null.json"     :> <<P("["), LitT("null"), P("]")>>
  @@ "late.json"     :> <<P("[")>> \o Qtoks("q1", "2+2?") \o
                          <<P(","), StrT("q2"), P("]")>>
  @@ "early.json"    :> <<P("["), P("{"), StrT("id"), P(":"), StrT("q1"),
                          P("}"), P(","), NumT("5"), P("]")>>
  @@ "cut.json"      :> <<P("["), P("{"), StrT("id")>>
  @@ "comma.json"    :> <<P("[")>> \o Qtoks("q1", "2+2?") \o <<P(","), P("]")>>
  @@ "empty.json"    :> << >>

Files == DOMAIN FileText
NoFile == ""

\* the files offered to the form in the specification of the whole form
FormFiles == {"one.json", "object.json", "number.json"}

\* ------------------------------------------------------------------------
\* CreateLiveQuiz: question ingestion (handleFileChange)
\* ------------------------------------------------------------------------
InvalidShapeMsg == <<"Invalid JSON format. Expected an array of quiz questions.">>
MalformedMsg == <<"Invalid JSON file. Please ensure it's well-formed JSON.">>

\* key in item: whether item has the property; a TypeError when item is
\* not an object (arrays are objects, and have neither property)
InThrows(item) == item.t \notin {"obj", "arr"}
In(key, item) ==
  item.t = "obj" /\ \E i \in 1..Len(item.items) : item.items[i].key = key

\* data.every(item => 'id' in item && 'question' in item), left to right,
\* stopping at the first element that fails: "true", "false" or "throw"
RECURSIVE Every(_, _)
Every(items, i) ==
  IF i > Len(items) THEN "true"
  ELSE IF InThrows(items[i]) THEN "throw"
  ELSE IF ~(In("id", items[i]) /\ In("question", items[i])) THEN "false"
  ELSE Every(items, i + 1)

Loaded(questions, err) == [questions |-> questions, fileError |-> err]

\* the body of reader.onload on the text of the file
Onload(text) ==
  LET data == JSONparse(text) IN
  IF data.threw THEN Loaded(<< >>, MalformedMsg)
  ELSE IF data.val.t = "arr" /\ Every(data.val.items, 1) = "throw"
    THEN Loaded(<< >>, MalformedMsg)
  ELSE IF data.val.t = "arr" /\ Every(data.val.items, 1) = "true"
    THEN Loaded(data.val.items, Null)
  ELSE Loaded(<< >>, InvalidShapeMsg)

\* handleFileChange with event.target.files[0] = file
handleFileChange(file) ==
  /\ selected' = file
  /\ IF file # NoFile
       THEN /\ readers' = readers (+) SetToBag({file})
            /\ UNCHANGED <<quizQuestions, fileError, touched>>
       ELSE /\ quizQuestions' = << >>
            /\ fileError' = Null
            /\ touched' = TRUE
            /\ UNCHANGED readers
  /\ op' = "handleFileChange"
  /\ UNCHANGED <<authLoading, currentUser, quizDetails, formError,
                 successMessage, isSubmitting, pending, listVars>>

\* faulty variant: a file that fails to load sets the error and leaves the questions
ReaderOnload_stale(file) ==
  /\ BagIn(file, readers)
  /\ readers' = readers (-) SetToBag({file})
  /\ quizQuestions' = IF Onload(FileText[file]).fileError = Null
                        THEN Onload(FileText[file]).questions
                        ELSE quizQuestions
  /\ fileError' = Onload(FileText[file]).fileError
  /\ op' = "onload"
  /\ touched' = TRUE
  /\ UNCHANGED <<authLoading, currentUser, quizDetails, formError,
                 successMessage, isSubmitting, selected, pending, listVars>>

\* reader.onload of one of the reads in progress
ReaderOnload(file) ==
  /\ BagIn(file, readers)
  /\ readers' = readers (-) SetToBag({file})
  /\ quizQuestions' = Onload(FileText[file]).questions
  /\ fileError' = Onload(FileText[file]).fileError
  /\ op' = "onload"
  /\ touched' = TRUE
  /\ UNCHANGED <<authLoading, currentUser, quizDetails, formError,
                 successMessage, isSubmitting, selected, pending, listVars>>

\* ------------------------------------------------------------------------
\* CreateLiveQuiz: details and submission
\* ------------------------------------------------------------------------
DefaultDetails ==
  [id |-> << >>, title |-> "", grade |-> "", timeLimit |-> Num(0),
   targetAudience |-> "authenticated"]

\* the texts typed into the time-limit field
TimeTexts ==
  { << >>, <<"a">>, <<"0">>, <<"-", "1">>, <<"1", "0">>, <<" ", "+", "5", ".", "2">> }

\* the texts typed into it in the specification of the whole form
FormTimeTexts == { << >>, <<"0">>, <<"1", "0">> }

\* the (name, value) pairs of the change events of the four inputs
Edits ==
       { [name |-> "title", value |-> v] : v \in {"", "Algebra"} }
  \cup { [name |-> "grade", value |-> v] : v \in {"", "10"} }
  \cup { [name |-> "timeLimit", value |-> v] : v \in FormTimeTexts }
  \cup { [name |-> "targetAudience", value |-> v] : v \in {"authenticated", "all"} }

handleDetailsChange(name, value) ==
  /\ quizDetails' = [quizDetails EXCEPT
                       ![name] = IF name = "timeLimit" THEN parseInt(value) ELSE value]
  /\ op' = "handleDetailsChange"
  /\ touched' = TRUE
  /\ UNCHANGED <<authLoading, currentUser, quizQuestions, fileError, formError,
                 successMessage, isSubmitting, selected, readers, pending, listVars>>

AuthMsg == <<"Authentication not loaded or user not logged in.">>
DetailsMsg == <<"Please fill in all quiz details (Title, Grade, Time Limit).">>
QuestionsMsg == <<"Please upload a JSON file with quiz questions.">>

\* faulty variant: the button is not disabled while a submission is in progress
SubmitDisabled_noFlag ==
  \/ authLoading
  \/ currentUser = Null
  \/ Len(quizQuestions) = 0
  \/ quizDetails.title = ""
  \/ LeqZero(quizDetails.timeLimit)

\* the submit button's disabled attribute
SubmitDisabled ==
  \/ isSubmitting
  \/ authLoading
  \/ currentUser = Null
  \/ Len(quizQuestions) = 0
  \/ quizDetails.title = ""
  \/ LeqZero(quizDetails.timeLimit)

\* faulty variant: the questions are not checked
Invalid_skipQuestions ==
  IF authLoading \/ currentUser = Null THEN AuthMsg
  ELSE IF \/ quizDetails.title = ""
          \/ quizDetails.grade = ""
          \/ LeqZero(quizDetails.timeLimit) THEN DetailsMsg
  ELSE Null

\* the first precondition of handleSubmit that fails, Null when none does
Invalid ==
  IF authLoading \/ currentUser = Null THEN AuthMsg
  ELSE IF \/ quizDetails.title = ""
          \/ quizDetails.grade = ""
          \/ LeqZero(quizDetails.timeLimit) THEN DetailsMsg
  ELSE IF Len(quizQuestions) = 0 THEN QuestionsMsg
  ELSE Null

\* the call saveLiveQuizToFirestore(finalQuizData, currentUser.uid) made at
\* time now, with the title the continuation of handleSubmit closes over
SaveCall(now) ==
  [data |-> [details |-> [quizDetails EXCEPT !.id = <<"quiz_", now>>],
             questions |-> quizQuestions,
             type |-> "live"],
   uid |-> currentUser.uid,
   title |-> quizDetails.title]

\* handleSubmit up to its await, Date.now() = now
handleSubmit(now) ==
  /\ successMessage' = Null
  /\ formError' = Invalid
  /\ IF Invalid # Null
       THEN UNCHANGED <<isSubmitting, pending>>
       ELSE /\ isSubmitting' = TRUE
            /\ pending' = pending (+) SetToBag({SaveCall(now)})
  /\ op' = "handleSubmit"
  /\ touched' = FALSE
  /\ UNCHANGED <<authLoading, currentUser, quizDetails, quizQuestions, fileError,
                 selected, readers, listVars>>

\* faulty variant: the questions are kept after a successful write
SaveResolved_keepQuestions(call, quizId) ==
  /\ BagIn(call, pending)
  /\ pending' = pending (-) SetToBag({call})
  /\ successMessage' =
       <<"Quiz \"", call.title, "\" added/updated successfully with ID: ", quizId>>
  /\ quizDetails' = DefaultDetails
  /\ isSubmitting' = FALSE
  /\ op' = "saveResolved"
  /\ UNCHANGED touched
  /\ UNCHANGED <<authLoading, currentUser, quizQuestions, fileError, formError,
                 selected, readers, listVars>>

\* handleSubmit after its await, the write of call having returned quizId
SaveResolved(call, quizId) ==
  /\ BagIn(call, pending)
  /\ pending' = pending (-) SetToBag({call})
  /\ successMessage' =
       <<"Quiz \"", call.title, "\" added/updated successfully with ID: ", quizId>>
  /\ quizDetails' = DefaultDetails
  /\ quizQuestions' = << >>
  /\ isSubmitting' = FALSE
  /\ op' = "saveResolved"
  /\ UNCHANGED touched
  /\ UNCHANGED <<authLoading, currentUser, fileError, formError, selected,
                 readers, listVars>>

\* faulty variant: a failed write resets the draft as a successful one does
SaveRejected_reset(call, message) ==
  /\ BagIn(call, pending)
  /\ pending' = pending (-) SetToBag({call})
  /\ formError' = <<"Failed to save quiz: ",
                    IF message = "" THEN "Unknown error" ELSE message>>
  /\ quizDetails' = DefaultDetails
  /\ quizQuestions' = << >>
  /\ isSubmitting' = FALSE
  /\ op' = "saveRejected"
  /\ UNCHANGED touched
  /\ UNCHANGED <<authLoading, currentUser, fileError, successMessage, selected,
                 readers, listVars>>

\* handleSubmit's catch, the write of call having rejected with an Error
\* whose message is message
SaveRejected(call, message) ==
  /\ BagIn(call, pending)
  /\ pending' = pending (-) SetToBag({call})
  /\ formError' = <<"Failed to save quiz: ",
                    IF message = "" THEN "Unknown error" ELSE message>>
  /\ isSubmitting' = FALSE
  /\ op' = "saveRejected"
  /\ UNCHANGED touched
  /\ UNCHANGED <<authLoading, currentUser, quizDetails, quizQuestions, fileError,
                 successMessage, selected, readers, listVars>>

\* the auth provider publishes a resolved state: user signed in, or Null
AuthStateChanged(user) ==
  /\ authLoading' = FALSE
  /\ currentUser' = user
  /\ op' = "authStateChanged"
  /\ UNCHANGED touched
  /\ UNCHANGED <<quizDetails, quizQuestions, fileError, formError, successMessage,
                 isSubmitting, selected, readers, pending, listVars>>

Users == {[uid |-> "u1"]}
QuizIds == {"docA", "docB"}
Messages == {"", "quota exceeded"}
Times == 1..MaxNow

\* ------------------------------------------------------------------------
\* LiveTest: the listing page
\* ------------------------------------------------------------------------
Quiz(id, millis) == [details |-> [id |-> id], createdAt |-> millis]

\* the quizzes the store can hold; two of them were created at the same time
QuizPool ==
  { Quiz("quiz_1", 100), Quiz("quiz_2", 300), Quiz("quiz_3", 200), Quiz("quiz_4", 200) }

\* the answers of the listing read: the quizzes of the store in any order
Remotes ==
  { s \in UNION { [1..n -> QuizPool] : n \in 0..MaxQuizzes } :
      \A i, j \in DOMAIN s : i # j => s[i] # s[j] }

\* faulty variant: the comparator with its operands exchanged
Compare_ascending(a, b) == a.createdAt - b.createdAt

\* the comparator handed to sort: negative when a goes before b
Compare(a, b) == b.createdAt - a.createdAt

\* x put into the sorted s, after every element that does not go after it
RECURSIVE Insert(_, _)
Insert(s, x) ==
  IF s = << >> THEN <<x>>
  ELSE IF Compare(x, Head(s)) < 0 THEN <<x>> \o s
  ELSE <<Head(s)>> \o Insert(Tail(s), x)

\* fetchedQuizzes.sort(Compare): a stable sort by the comparator
RECURSIVE Sort(_)
Sort(s) ==
  IF s = << >> THEN << >>
  ELSE Insert(Sort(SubSeq(s, 1, Len(s) - 1)), s[Len(s)])

NoTestsMsg == <<"No active live tests are currently available.">>
LoadFailedMsg == <<"Failed to load live tests. Please try again later.">>

\* the effect's dependency array is empty: it is due once, after the mount
EffectDue == fetch = "idle"

\* useEffect: fetchQuizzes up to its await
FetchQuizzes ==
  /\ EffectDue
  /\ loading' = TRUE
  /\ error' = Null
  /\ fetch' = "waiting"
  /\ fetches' = fetches + 1
  /\ op' = "fetchQuizzes"
  /\ UNCHANGED touched
  /\ UNCHANGED <<formVars, remote, quizzes, route>>

\* faulty variant: an empty answer sets no message
FetchResolved_silent ==
  /\ fetch = "waiting"
  /\ quizzes' = Sort(remote)
  /\ error' = error
  /\ loading' = FALSE
  /\ fetch' = "done"
  /\ op' = "fetchResolved"
  /\ UNCHANGED touched
  /\ UNCHANGED <<formVars, remote, fetches, route>>

\* fetchQuizzes after its await, the read having answered with remote
FetchResolved ==
  /\ fetch = "waiting"
  /\ quizzes' = Sort(remote)
  /\ error' = IF Len(Sort(remote)) = 0 THEN NoTestsMsg ELSE error
  /\ loading' = FALSE
  /\ fetch' = "done"
  /\ op' = "fetchResolved"
  /\ UNCHANGED touched
  /\ UNCHANGED <<formVars, remote, fetches, route>>

\* fetchQuizzes' catch, the read having rejected
FetchRejected ==
  /\ fetch = "waiting"
  /\ error' = LoadFailedMsg
  /\ loading' = FALSE
  /\ fetch' = "failed"
  /\ op' = "fetchRejected"
  /\ UNCHANGED touched
  /\ UNCHANGED <<formVars, remote, quizzes, fetches, route>>

\* what LiveTest renders
View ==
  IF loading THEN [show |-> "loading", text |-> Null]
  ELSE IF error # Null /\ Len(quizzes) = 0 THEN [show |-> "error", text |-> error]
  ELSE IF Len(quizzes) = 0 THEN [show |-> "noTests", text |-> Null]
  ELSE [show |-> "cards", text |-> Null]

\* the Attend Test button of the card of quizzes[i]
handleAttendTest(i) ==
  /\ View.show = "cards"
  /\ route = Null
  /\ i \in 1..Len(quizzes)
  /\ route' = <<"/student/quiz/", quizzes[i].details.id>>
  /\ op' = "handleAttendTest"
  /\ UNCHANGED touched
  /\ UNCHANGED <<formVars, remote, quizzes, loading, error, fetch, fetches>>

\* ------------------------------------------------------------------------
\* Specifications
\* ------------------------------------------------------------------------
InitForm ==
  /\ authLoading = TRUE
  /\ currentUser = Null
  /\ quizDetails = DefaultDetails
  /\ quizQuestions = << >>
  /\ fileError = Null
  /\ formError = Null
  /\ successMessage = Null
  /\ isSubmitting = FALSE
  /\ selected = NoFile
  /\ readers = EmptyBag
  /\ pending = EmptyBag

InitList ==
  /\ remote = << >>
  /\ quizzes = << >>
  /\ loading = TRUE
  /\ error = Null
  /\ fetch = "idle"
  /\ fetches = 0
  /\ route = Null

\* ---- the CreateLiveQuiz form, driven through its inputs and its button ----
Init == InitForm /\ InitList /\ op = "init" /\ touched = FALSE

SelectFile ==
  \E file \in FormFiles \cup {NoFile} :
    /\ file # NoFile => BagCardinality(readers) < MaxFormReaders
    /\ handleFileChange(file)

FileLoaded == \E file \in FormFiles : ReaderOnload(file)

EditDetails == \E e \in Edits : handleDetailsChange(e.name, e.value)

ClickSubmit == ~SubmitDisabled /\ \E now \in Times : handleSubmit(now)

WriteResolved ==
  \E call \in BagToSet(pending), quizId \in QuizIds : SaveResolved(call, quizId)

WriteRejected ==
  \E call \in BagToSet(pending), message \in Messages : SaveRejected(call, message)

AuthChanged == \E user \in Users \cup {Null} : AuthStateChanged(user)

Next ==
  \/ SelectFile
  \/ FileLoaded
  \/ EditDetails
  \/ ClickSubmit
  \/ WriteResolved
  \/ WriteRejected
  \/ AuthChanged

Spec == Init /\ [][Next]_vars

\* ---- ingestion alone: any file, any order of completion ----
IngestSelect ==
  \E file \in Files \cup {NoFile} :
    /\ file # NoFile => BagCardinality(readers) < MaxReaders
    /\ handleFileChange(file)

IngestLoaded == \E file \in Files : ReaderOnload(file)

NextIngest == IngestSelect \/ IngestLoaded

SpecIngest == Init /\ [][NextIngest]_vars

\* ---- handleSubmit run on every draft and every auth state ----
Drafts ==
  { [id |-> << >>, title |-> t, grade |-> g, timeLimit |-> n, targetAudience |-> a] :
      t \in {"", "Algebra"}, g \in {"", "10"},
      n \in {Num(0)} \cup { parseInt(x) : x \in TimeTexts },
      a \in {"authenticated", "all"} }

InitHandler ==
  /\ InitList
  /\ op = "init"
  /\ touched = FALSE
  /\ authLoading \in BOOLEAN
  /\ currentUser \in (IF authLoading THEN {Null} ELSE Users \cup {Null})
  /\ quizDetails \in Drafts
  /\ quizQuestions \in { Onload(FileText[f]).questions : f \in Files }
  /\ fileError = Null
  /\ formError = Null
  /\ successMessage = Null
  /\ isSubmitting = FALSE
  /\ selected = NoFile
  /\ readers = EmptyBag
  /\ pending = EmptyBag

RunSubmit ==
  /\ BagCardinality(pending) < MaxInFlight
  /\ \E now \in Times : handleSubmit(now)

NextHandler == RunSubmit \/ WriteResolved \/ WriteRejected

SpecHandler == InitHandler /\ [][NextHandler]_vars

\* ---- the listing page, for every answer of the store ----
InitLiveTest ==
  /\ InitForm
  /\ op = "init"
  /\ touched = FALSE
  /\ remote \in Remotes
  /\ quizzes = << >>
  /\ loading = TRUE
  /\ error = Null
  /\ fetch = "idle"
  /\ fetches = 0
  /\ route = Null

AttendTest == \E i \in 1..MaxQuizzes : handleAttendTest(i)

NextLiveTest == FetchQuizzes \/ FetchResolved \/ FetchRejected \/ AttendTest

SpecLiveTest == InitLiveTest /\ [][NextLiveTest]_vars

\* ------------------------------------------------------------------------
\* Properties
\* ------------------------------------------------------------------------

\* the conditions under which a submission has to be refused, on the draft
\* and the auth state handleSubmit finds
MustRefuse ==
  \/ quizDetails.title = ""
  \/ quizDetails.grade = ""
  \/ LeqZero(quizDetails.timeLimit)
  \/ Len(quizQuestions) = 0
  \/ authLoading
  \/ currentUser = Null

\* C1: whenever handleSubmit runs on a draft with an empty title, an empty
\* grade, a time limit <= 0 or no questions, or while auth is loading or
\* nobody is signed in, it sets a validation error and makes no call of
\* saveLiveQuizToFirestore
C1_InvalidDraftRefused ==
  [][ (op' = "handleSubmit" /\ MustRefuse) =>
        /\ formError' \in {AuthMsg, DetailsMsg, QuestionsMsg}
        /\ pending' = pending
        /\ isSubmitting' = isSubmitting ]_vars

\* handleSubmit has run on a draft without questions and refused it
C1_Witness ==
  /\ op = "handleSubmit"
  /\ quizDetails.title = "Algebra" /\ quizDetails.grade = "10"
  /\ quizDetails.timeLimit = Num(10)
  /\ currentUser # Null
  /\ Len(quizQuestions) = 0
  /\ formError = QuestionsMsg
  /\ pending = EmptyBag

\* C2: at most one write is outstanding, and one is outstanding exactly
\* while the submitting flag is set
C2_OneWriteInFlight ==
  /\ BagCardinality(pending) <= 1
  /\ isSubmitting <=> pending # EmptyBag

\* a write is outstanding on a form whose draft would pass validation again
C2_Witness ==
  /\ BagCardinality(pending) = 1
  /\ Invalid = Null
  /\ isSubmitting

\* C3: the step that handles a successful write leaves the default details
\* and no questions, and sets the success message made of the title that was
\* submitted and an identifier the write returned
C3_ResetOnSuccess ==
  [][ op' = "saveResolved" =>
        /\ quizDetails' = DefaultDetails
        /\ quizQuestions' = << >>
        /\ \E call \in BagToSet(pending), quizId \in QuizIds :
             successMessage' =
               <<"Quiz \"", call.data.details.title,
                 "\" added/updated successfully with ID: ", quizId>> ]_vars

\* a successful write was handled after the draft had been changed while
\* the write was outstanding
C3_Witness ==
  /\ op = "saveResolved"
  /\ touched
  /\ successMessage = <<"Quiz \"", "Algebra",
                        "\" added/updated successfully with ID: ", "docB">>
  /\ quizDetails = DefaultDetails
  /\ quizQuestions = << >>

\* C4: the step that handles a rejected write changes neither the details
\* nor the questions, sets the failure message with the rejection's message
\* in it, leaves no success message and clears the submitting flag
C4_DraftKeptOnFailure ==
  [][ op' = "saveRejected" =>
        /\ quizDetails' = quizDetails
        /\ quizQuestions' = quizQuestions
        /\ Len(formError') = 2
        /\ formError'[1] = "Failed to save quiz: "
        /\ formError'[2] \in (Messages \ {""}) \cup {"Unknown error"}
        /\ successMessage' = Null
        /\ isSubmitting' = FALSE ]_vars

\* a rejected write was handled and the draft that was submitted is still there
C4_Witness ==
  /\ op = "saveRejected"
  /\ formError = <<"Failed to save quiz: ", "quota exceeded">>
  /\ quizDetails.title = "Algebra"
  /\ Len(quizQuestions) > 0
  /\ Invalid = Null
  /\ ~isSubmitting

\* whether value has the property, as the claim reads it: a value that is
\* not an object has no property
Possesses(key, value) ==
  value.t = "obj" /\ \E i \in 1..Len(value.items) : value.items[i].key = key

\* the file parses, and is no array or has an element without id or question
ShapeViolation(file) ==
  LET data == JSONparse(FileText[file]) IN
  /\ ~data.threw
  /\ \/ data.val.t # "arr"
     \/ \E i \in 1..Len(data.val.items) :
          ~(Possesses("id", data.val.items[i])
            /\ Possesses("question", data.val.items[i]))

\* C5: the load of a file that parses as JSON but is not an array of
\* elements that each have id and question sets the invalid-shape error and
\* empties the questions
C5_InvalidShapeReported ==
  [][ \A file \in Files :
        ( /\ op' = "onload"
          /\ BagIn(file, readers)
          /\ readers' = readers (-) SetToBag({file})
          /\ ShapeViolation(file) ) =>
        (fileError' = InvalidShapeMsg /\ quizQuestions' = << >>) ]_vars

\* C6: while a file error is shown the draft has no questions
C6_NoQuestionsBesideError ==
  fileError # Null => quizQuestions = << >>

\* a file failed to load while a write of a draft with questions is
\* outstanding: the questions that were there are gone
C6_Witness ==
  /\ fileError # Null
  /\ op = "onload"
  /\ pending # EmptyBag
  /\ quizQuestions = << >>

DistinctStamps(s) ==
  \A i, j \in DOMAIN s : i # j => s[i].createdAt # s[j].createdAt

IsPermutation(s, t) ==
  /\ Len(s) = Len(t)
  /\ \A q \in QuizPool :
       Cardinality({i \in DOMAIN s : s[i] = q}) = Cardinality({i \in DOMAIN t : t[i] = q})

\* C7: when the read has answered with quizzes of distinct creation times,
\* the list is a permutation of the answer in strictly descending order of
\* creation time
C7_SortedDescending ==
  (fetch = "done" /\ DistinctStamps(remote)) =>
    /\ IsPermutation(quizzes, remote)
    /\ \A i, j \in DOMAIN quizzes :
         i < j => quizzes[i].createdAt > quizzes[j].createdAt

\* the answer created at 100, 300, 200 is listed as 300, 200, 100
C7_Witness ==
  /\ fetch = "done"
  /\ remote = <<Quiz("quiz_1", 100), Quiz("quiz_2", 300), Quiz("quiz_3", 200)>>
  /\ quizzes = <<Quiz("quiz_2", 300), Quiz("quiz_3", 200), Quiz("quiz_1", 100)>>

\* C8: the read is made once; when it has settled the page is not loading,
\* and it shows the failure message (rejected) or the no-tests message
\* (empty answer) with an empty list, or else the cards and no error
C8_OneFetchTwoOutcomes ==
  /\ fetches <= 1
  /\ fetch \in {"done", "failed"} =>
       /\ fetches = 1
       /\ ~loading
       /\ IF fetch = "failed" \/ Len(remote) = 0
            THEN /\ error # Null
                 /\ quizzes = << >>
                 /\ View = [show |-> "error",
                            text |-> IF fetch = "failed" THEN LoadFailedMsg
                                                         ELSE NoTestsMsg]
            ELSE /\ error = Null
                 /\ View.show = "cards"
                 /\ Len(quizzes) = Len(remote)

\* the read answered with no quiz and the no-tests message is shown
C8_Witness ==
  /\ fetch = "done"
  /\ remote = << >>
  /\ View = [show |-> "error", text |-> NoTestsMsg]

\* C9: when no read is in progress, the questions and the file error are
\* those of the file selected last, or empty and none when no file is selected
C9_LastSelectionWins ==
  readers = EmptyBag =>
    IF selected = NoFile
      THEN quizQuestions = << >> /\ fileError = Null
      ELSE /\ quizQuestions = Onload(FileText[selected]).questions
           /\ fileError = Onload(FileText[selected]).fileError

\* a number that is a positive integer
IsPositiveInt(x) == ~x.nan /\ x.val > 0

====
